---- MODULE Spec2Model ----
(***************************************************************************)
(* Model of proc-quote-impl/src/proc_quote.rs: the compiler of a token     *)
(* template into the program that rebuilds it (`quote`).                   *)
(*                                                                         *)
(* A token stream is a sequence of tokens; a token is a record whose field *)
(* k is "Ident", "Punct", "Literal" or "Group".  A span is the path of the *)
(* token in the template (the index at each level), so two tokens never    *)
(* share a span.  The text of a literal is a sequence of characters.       *)
(***************************************************************************)
EXTENDS Integers, Sequences, FiniteSets, TLC

VARIABLES input, pos, output, pc, result, ip, lens, iter, emitted

vars == <<input, pos, output, pc, result, ip, lens, iter, emitted>>

RECURSIVE parse_group(_, _)
RECURSIVE parse_group_in_iterator_pattern(_, _, _)
RECURSIVE interpolation_pattern_type(_, _, _)
RECURSIVE interpolate_iterator_group(_, _, _)
RECURSIVE pts_loop(_, _, _)
RECURSIVE ptsip_loop(_, _, _, _)
RECURSIVE parse_separator_loop(_, _, _, _)

(***************************************************************************)
(* proc_macro2 tokens                                                      *)
(***************************************************************************)
Ident(text) == [k |-> "Ident", text |-> text, span |-> <<>>]

Punct(ch, spacing) == [k |-> "Punct", ch |-> ch, spacing |-> spacing, span |-> <<>>]

Literal(repr) == [k |-> "Literal", repr |-> repr, span |-> <<>>]

Group(delimiter, stream) ==
    [k |-> "Group", delimiter |-> delimiter, stream |-> stream, span |-> <<>>]

Delimiters == {"Parenthesis", "Brace", "Bracket", "None"}

\* Span::call_site(): the span of the tokens `quote!` itself writes.
call_site == <<0>>

(***************************************************************************)
(* Error (lines 4-31)                                                      *)
(***************************************************************************)
NoSpan == [some |-> FALSE, span |-> <<>>]

SomeSpan(span) == [some |-> TRUE, span |-> span]

Error_new(span, msg) == [span_s |-> span, span_e |-> NoSpan, msg |-> msg]

end_span(self, span) == [self EXCEPT !.span_e = SomeSpan(span)]

\* compile_error!(msg) carries span_s, the closing `;` carries
\* span_e.unwrap_or(span_s).
raise(self) ==
    [k |-> "compile_error", msg |-> self.msg, span_s |-> self.span_s,
     span_e |-> IF self.span_e.some THEN self.span_e.span ELSE self.span_s]

NoError == Error_new(<<>>, "")

MsgEmpty == "Expected at least one iterator inside pattern."

MsgNested == "Nested iterator patterns not supported."

\* the message of line 368, whose asterisk the source writes between backquotes
MsgUnterminated == "Iterating interpolation does not have * symbol."

(***************************************************************************)
(* Result<T>, widened by the outcome "Panic" of panic!().  out is the      *)
(* TokenStream built so far, pos the cursor of the caller's iterator (the  *)
(* index of the next token `input.next()` returns), idents the iter_idents *)
(* vector.                                                                 *)
(***************************************************************************)
Ok(out, p, idents) ==
    [tag |-> "Ok", out |-> out, pos |-> p, idents |-> idents, err |-> NoError]

Err(e) == [tag |-> "Err", out |-> <<>>, pos |-> 0, idents |-> <<>>, err |-> e]

Panic == [tag |-> "Panic", out |-> <<>>, pos |-> 0, idents |-> <<>>, err |-> NoError]

generate_quote_header(inner) == [k |-> "quote_header", inner |-> inner]

parse_ident(stream, ident) ==
    Append(stream, [op |-> "append_ident", text |-> ident.text, span |-> ident.span])

parse_punct(stream, punct) ==
    Append(stream, [op |-> "append_punct", ch |-> punct.ch,
                    spacing |-> IF punct.spacing = "Alone" THEN "Alone" ELSE "Joint",
                    span |-> punct.span])

(***************************************************************************)
(* str::ends_with and str::parse::<i32 | i64 | u64 | f64>                   *)
(***************************************************************************)
Digits == {"0", "1", "2", "3", "4", "5", "6", "7", "8", "9"}

DigitVal(c) ==
    CASE c = "0" -> 0 [] c = "1" -> 1 [] c = "2" -> 2 [] c = "3" -> 3
      [] c = "4" -> 4 [] c = "5" -> 5 [] c = "6" -> 6 [] c = "7" -> 7
      [] c = "8" -> 8 [] c = "9" -> 9

ends_with(s, suffix) ==
    /\ Len(s) >= Len(suffix)
    /\ SubSeq(s, Len(s) - Len(suffix) + 1, Len(s)) = suffix

AllDigits(s) == \A i \in 1..Len(s) : s[i] \in Digits

RECURSIVE StripZeros(_)
StripZeros(s) ==
    IF Len(s) > 1 /\ s[1] = "0" THEN StripZeros(Tail(s)) ELSE s

RECURSIVE LexLeq(_, _)
LexLeq(a, b) ==
    IF a = <<>> THEN TRUE
    ELSE IF DigitVal(a[1]) # DigitVal(b[1]) THEN DigitVal(a[1]) < DigitVal(b[1])
    ELSE LexLeq(Tail(a), Tail(b))

\* a <= b for decimal numbers without leading zeros
DecLeq(a, b) == Len(a) < Len(b) \/ (Len(a) = Len(b) /\ LexLeq(a, b))

I32Max == <<"2","1","4","7","4","8","3","6","4","7">>
I32MinAbs == <<"2","1","4","7","4","8","3","6","4","8">>
I64Max == <<"9","2","2","3","3","7","2","0","3","6","8","5","4","7","7","5","8","0","7">>
I64MinAbs == <<"9","2","2","3","3","7","2","0","3","6","8","5","4","7","7","5","8","0","8">>
U64Max == <<"1","8","4","4","6","7","4","4","0","7","3","7","0","9","5","5","1","6","1","5">>

NoValue == [ok |-> FALSE, neg |-> FALSE, digits |-> <<>>]

\* <integer>::from_str: an optional sign (`-` only for signed types), then
\* one or more decimal digits, and the value must fit the type.
parse_int(s, signed, max, minAbs) ==
    LET signedText == Len(s) > 0 /\ s[1] \in {"+", "-"}
        neg == Len(s) > 0 /\ s[1] = "-"
        body == IF signedText THEN Tail(s) ELSE s
        d == StripZeros(body)
    IN  IF body = <<>> \/ ~AllDigits(body) THEN NoValue
        ELSE IF neg /\ ~signed THEN NoValue
        ELSE IF neg /\ ~DecLeq(d, minAbs) THEN NoValue
        ELSE IF ~neg /\ ~DecLeq(d, max) THEN NoValue
        ELSE [ok |-> TRUE, neg |-> neg /\ d # <<"0">>, digits |-> d]

parse_i32(s) == parse_int(s, TRUE, I32Max, I32MinAbs)

parse_i64(s) == parse_int(s, TRUE, I64Max, I64MinAbs)

parse_u64(s) == parse_int(s, FALSE, U64Max, <<"0">>)

RECURSIVE IndexOf(_, _, _)
\* the first index >= i of s holding a character of cs, 0 if there is none
IndexOf(s, cs, i) ==
    IF i > Len(s) THEN 0 ELSE IF s[i] \in cs THEN i ELSE IndexOf(s, cs, i + 1)

\* f64::from_str on the decimal forms: [sign] digits* [. digits*] with at
\* least one digit, then an optional exponent e|E [sign] digits+.
parse_f64(s) ==
    LET hasSign == Len(s) > 0 /\ s[1] \in {"+", "-"}
        body == IF hasSign THEN Tail(s) ELSE s
        e == IndexOf(body, {"e", "E"}, 1)
        mant == IF e = 0 THEN body ELSE SubSeq(body, 1, e - 1)
        expo == IF e = 0 THEN <<>> ELSE SubSeq(body, e + 1, Len(body))
        expSign == Len(expo) > 0 /\ expo[1] \in {"+", "-"}
        expDigits == IF expSign THEN Tail(expo) ELSE expo
        dot == IndexOf(mant, {"."}, 1)
        int == IF dot = 0 THEN mant ELSE SubSeq(mant, 1, dot - 1)
        frac == IF dot = 0 THEN <<>> ELSE SubSeq(mant, dot + 1, Len(mant))
    IN  /\ AllDigits(int) /\ AllDigits(frac)
        /\ Len(int) + Len(frac) > 0
        /\ e # 0 => (expDigits # <<>> /\ AllDigits(expDigits))

Suffixes ==
    { <<"u","8">>, <<"u","1","6">>, <<"u","3","2">>, <<"u","6","4">>,
      <<"u","1","2","8">>, <<"u","s","i","z","e">>,
      <<"i","8">>, <<"i","1","6">>, <<"i","3","2">>, <<"i","6","4">>,
      <<"i","1","2","8">>, <<"i","s","i","z","e">>,
      <<"f","3","2">>, <<"f","6","4">>, <<"\"">>, <<"'">>, <<"#">> }

\* parse_literal: the instruction appended for a literal, or the panic.
parse_literal(stream, lit) ==
    LET lit_to_string == lit.repr
        i32 == parse_i32(lit_to_string)
        i64 == parse_i64(lit_to_string)
        u64 == parse_u64(lit_to_string)
        append(ctor, v) ==
            Ok(Append(stream, [op |-> "append_lit", ctor |-> ctor, neg |-> v.neg,
                               digits |-> v.digits, repr |-> lit_to_string,
                               span |-> lit.span]), 0, <<>>)
    IN  IF \E suffix \in Suffixes : ends_with(lit_to_string, suffix)
        THEN Ok(Append(stream, [op |-> "append_to_tokens_lit", repr |-> lit.repr,
                                span |-> lit.span]), 0, <<>>)
        ELSE IF i32.ok THEN append("i32_unsuffixed", i32)
        ELSE IF i64.ok THEN append("i64_unsuffixed", i64)
        ELSE IF u64.ok THEN append("u64_unsuffixed", u64)
        ELSE IF parse_f64(lit_to_string) THEN append("f64_unsuffixed", NoValue)
        ELSE Panic

(***************************************************************************)
(* Groups (lines 117-163)                                                  *)
(***************************************************************************)
parse_group_inner(stream, inner, delimiter, group_span) ==
    Append(stream,
           [op |-> "append_group", inner |-> inner,
            delimiter |-> CASE delimiter = "Parenthesis" -> "Parenthesis"
                            [] delimiter = "Brace" -> "Brace"
                            [] delimiter = "Bracket" -> "Bracket"
                            [] delimiter = "None" -> "None",
            span |-> group_span])

\* what a group walker does with the walk of the group's stream: `?`, then
\* generate_quote_header and parse_group_inner
group_appended(stream, group, inner) ==
    IF inner.tag # "Ok" THEN inner
    ELSE Ok(parse_group_inner(stream, generate_quote_header(inner.out),
                              group.delimiter, group.span), 0, inner.idents)

parse_group(stream, group) ==
    group_appended(stream, group, pts_loop(group.stream, 1, <<>>))

parse_group_in_iterator_pattern(stream, group, iter_idents) ==
    group_appended(stream, group, ptsip_loop(group.stream, 1, <<>>, iter_idents))

(***************************************************************************)
(* InterpolationPattern and interpolation_pattern_type (lines 165-213).    *)
(* p is the cursor of `input`; the pattern returned carries the cursor     *)
(* after the tokens it consumed.                                           *)
(***************************************************************************)
NoToken == [k |-> "None"]

Pattern(pat, tok, separator, p) ==
    [tag |-> "Ok", pat |-> pat, tok |-> tok, separator |-> separator, pos |-> p,
     err |-> NoError]

PatternFailed(r) ==
    [tag |-> r.tag, pat |-> "None", tok |-> NoToken, separator |-> <<>>, pos |-> 0,
     err |-> r.err]

parse_separator(toks, p, iterators_span) ==
    parse_separator_loop(toks, p, <<>>, iterators_span)

\* lines 205-207: `parse_separator(input, inner.span())?`, then the pattern
iterator_pattern(inner, separator) ==
    IF separator.tag # "Ok" THEN PatternFailed(separator)
    ELSE Pattern("Iterator", inner, separator.out, separator.pos)

\* a detector that peeks at the identifier and leaves it to the caller
interpolation_pattern_type_peeking(punct, toks, p) ==
    LET peek == IF p <= Len(toks) THEN toks[p] ELSE NoToken
    IN  IF punct.ch = "#" /\ peek.k = "Ident"
        THEN Pattern("Ident", peek, <<>>, p)
        ELSE IF punct.ch = "#" /\ peek.k = "Group" /\ peek.delimiter = "Parenthesis"
        THEN iterator_pattern(peek, parse_separator(toks, p + 1, peek.span))
        ELSE Pattern("None", NoToken, <<>>, p)

interpolation_pattern_type(punct, toks, p) ==
    LET peek == IF p <= Len(toks) THEN toks[p] ELSE NoToken
    IN  IF punct.ch = "#" /\ peek.k = "Ident"
        THEN Pattern("Ident", peek, <<>>, p + 1)
        ELSE IF punct.ch = "#" /\ peek.k = "Group" /\ peek.delimiter = "Parenthesis"
        THEN iterator_pattern(peek, parse_separator(toks, p + 1, peek.span))
        ELSE Pattern("None", NoToken, <<>>, p)

(***************************************************************************)
(* Interpolation (lines 215-264)                                           *)
(***************************************************************************)
interpolate_to_tokens_ident(stream, ident) ==
    Append(stream, [op |-> "append_to_tokens", text |-> ident.text, span |-> ident.span])

TupleLeaf(name) == [leaf |-> TRUE, name |-> name, l |-> <<>>, r |-> <<>>]

RECURSIVE idents_in_tuple(_, _)
\* idents.fold(first, |previous, next| quote!{ (#previous, #next) })
idents_in_tuple(previous, idents) ==
    IF idents = <<>> THEN previous
    ELSE idents_in_tuple([leaf |-> FALSE, name |-> "", l |-> <<previous>>,
                          r |-> <<TupleLeaf(idents[1].text)>>],
                         Tail(idents))

\* the `for` loop of lines 246-261
ForLoop(pattern, idents, enumerate, separator, body) ==
    [op |-> "for", pattern |-> pattern, enumerate |-> enumerate,
     first_into_iter |-> idents[1].text,
     zip_iterators |-> [i \in 1..(Len(idents) - 1) |-> idents[i + 1].text],
     separator |-> separator, output |-> body, span |-> call_site]

\* a loop builder that looks for bound names before it looks at the walk's failure
iterator_group_loop_names_first(stream, group, separator, walked) ==
    IF walked.idents = <<>> THEN Err(Error_new(group.span, MsgEmpty))
    ELSE IF walked.tag # "Ok" THEN walked
    ELSE Ok(Append(stream,
                   ForLoop(idents_in_tuple(TupleLeaf(walked.idents[1].text),
                                           Tail(walked.idents)),
                           walked.idents, separator # <<>>, separator, walked.out)),
            0, <<>>)

\* lines 231-263, given the walk of the sub-template
iterator_group_loop(stream, group, separator, walked) ==
    IF walked.tag # "Ok" THEN walked
    ELSE IF walked.idents = <<>> THEN Err(Error_new(group.span, MsgEmpty))
    ELSE IF separator = <<>>
    THEN Ok(Append(stream,
                   ForLoop(idents_in_tuple(TupleLeaf(walked.idents[1].text),
                                           Tail(walked.idents)),
                           walked.idents, FALSE, <<>>, walked.out)), 0, <<>>)
    ELSE Ok(Append(stream,
                   ForLoop(idents_in_tuple(TupleLeaf(walked.idents[1].text),
                                           Tail(walked.idents)),
                           walked.idents, TRUE, separator, walked.out)), 0, <<>>)

interpolate_iterator_group(stream, group, separator) ==
    iterator_group_loop(stream, group, separator,
                        ptsip_loop(group.stream, 1, <<>>, <<>>))

(***************************************************************************)
(* The three walkers (lines 266-369).  Each *_step is one iteration of the *)
(* `while let Some(token) = input.next()` loop, on the token at p.         *)
(***************************************************************************)
At(r, p, idents) == IF r.tag = "Ok" THEN [r EXCEPT !.pos = p, !.idents = idents] ELSE r

\* the `?` on a failed interpolation_pattern_type
Failed(pattern) == IF pattern.tag = "Err" THEN Err(pattern.err) ELSE Panic

\* a range that ends where it starts, whatever the separator
last_span_of_group(separator, span_s) == span_s

\* separator.into_iter().last().map(|s| s.span()).unwrap_or(span_s): the
\* last token of an instruction is its `;`, which carries the instruction's span.
last_span(separator, span_s) ==
    IF separator = <<>> THEN span_s ELSE separator[Len(separator)].span

nested_error(group, separator) ==
    Err(end_span(Error_new(group.span, MsgNested), last_span(separator, group.span)))

\* lines 277-287
pts_punct(out, punct, pattern) ==
    IF pattern.tag # "Ok" THEN Failed(pattern)
    ELSE CASE pattern.pat = "Ident" ->
                Ok(interpolate_to_tokens_ident(out, pattern.tok), pattern.pos, <<>>)
           [] pattern.pat = "Iterator" ->
                At(interpolate_iterator_group(out, pattern.tok, pattern.separator),
                   pattern.pos, <<>>)
           [] pattern.pat = "None" ->
                Ok(parse_punct(out, punct), pattern.pos, <<>>)

pts_step(toks, p, out) ==
    CASE toks[p].k = "Group" -> At(parse_group(out, toks[p]), p + 1, <<>>)
      [] toks[p].k = "Ident" -> Ok(parse_ident(out, toks[p]), p + 1, <<>>)
      [] toks[p].k = "Literal" -> At(parse_literal(out, toks[p]), p + 1, <<>>)
      [] toks[p].k = "Punct" ->
            pts_punct(out, toks[p], interpolation_pattern_type(toks[p], toks, p + 1))

pts_continue(toks, r) ==
    IF r.tag # "Ok" THEN r ELSE pts_loop(toks, r.pos, r.out)

pts_loop(toks, p, out) ==
    IF p > Len(toks) THEN Ok(out, p, <<>>)
    ELSE pts_continue(toks, pts_step(toks, p, out))

parse_token_stream(toks) == pts_loop(toks, 1, <<>>)

\* a restricted walker that records every occurrence of a name
ptsip_punct_every_occurrence(out, punct, pattern, iter_idents) ==
    IF pattern.tag # "Ok" THEN Failed(pattern)
    ELSE CASE pattern.pat = "Ident" ->
                Ok(interpolate_to_tokens_ident(out, pattern.tok), pattern.pos,
                   Append(iter_idents, pattern.tok))
           [] pattern.pat = "Iterator" ->
                nested_error(pattern.tok, pattern.separator)
           [] pattern.pat = "None" ->
                Ok(parse_punct(out, punct), pattern.pos, iter_idents)

\* lines 311-326
ptsip_punct(out, punct, pattern, iter_idents) ==
    IF pattern.tag # "Ok" THEN Failed(pattern)
    ELSE CASE pattern.pat = "Ident" ->
                Ok(interpolate_to_tokens_ident(out, pattern.tok), pattern.pos,
                   IF \E i \in 1..Len(iter_idents) :
                          iter_idents[i].text = pattern.tok.text
                   THEN iter_idents
                   ELSE Append(iter_idents, pattern.tok))
           [] pattern.pat = "Iterator" ->
                nested_error(pattern.tok, pattern.separator)
           [] pattern.pat = "None" ->
                Ok(parse_punct(out, punct), pattern.pos, iter_idents)

\* the group walker has pushed onto iter_idents itself
keep_idents(r, p) == IF r.tag = "Ok" THEN [r EXCEPT !.pos = p] ELSE r

ptsip_step(toks, p, out, iter_idents) ==
    CASE toks[p].k = "Group" ->
            keep_idents(parse_group_in_iterator_pattern(out, toks[p], iter_idents), p + 1)
      [] toks[p].k = "Ident" -> Ok(parse_ident(out, toks[p]), p + 1, iter_idents)
      [] toks[p].k = "Literal" -> At(parse_literal(out, toks[p]), p + 1, iter_idents)
      [] toks[p].k = "Punct" ->
            ptsip_punct(out, toks[p], interpolation_pattern_type(toks[p], toks, p + 1),
                        iter_idents)

ptsip_continue(toks, r) ==
    IF r.tag # "Ok" THEN r ELSE ptsip_loop(toks, r.pos, r.out, r.idents)

ptsip_loop(toks, p, out, iter_idents) ==
    IF p > Len(toks) THEN Ok(out, p, iter_idents)
    ELSE ptsip_continue(toks, ptsip_step(toks, p, out, iter_idents))

parse_token_stream_in_iterator_pattern(toks, iter_idents) ==
    ptsip_loop(toks, 1, <<>>, iter_idents)

\* lines 349-362
separator_punct(out, punct, pattern) ==
    IF pattern.tag # "Ok" THEN Failed(pattern)
    ELSE CASE pattern.pat = "Ident" ->
                Ok(interpolate_to_tokens_ident(out, pattern.tok), pattern.pos, <<>>)
           [] pattern.pat = "Iterator" ->
                nested_error(pattern.tok, pattern.separator)
           [] pattern.pat = "None" ->
                Ok(parse_punct(out, punct), pattern.pos, <<>>)

\* one iteration of parse_separator's loop; tag "Return" is `return Ok(output)`
parse_separator_step(toks, p, out) ==
    CASE toks[p].k = "Group" -> At(parse_group(out, toks[p]), p + 1, <<>>)
      [] toks[p].k = "Ident" -> Ok(parse_ident(out, toks[p]), p + 1, <<>>)
      [] toks[p].k = "Literal" -> At(parse_literal(out, toks[p]), p + 1, <<>>)
      [] toks[p].k = "Punct" ->
            IF toks[p].ch = "*" THEN [Ok(out, p + 1, <<>>) EXCEPT !.tag = "Return"]
            ELSE separator_punct(out, toks[p],
                                 interpolation_pattern_type(toks[p], toks, p + 1))

separator_continue(toks, r, iterators_span) ==
    IF r.tag = "Return" THEN [r EXCEPT !.tag = "Ok"]
    ELSE IF r.tag # "Ok" THEN r
    ELSE parse_separator_loop(toks, r.pos, r.out, iterators_span)

parse_separator_loop(toks, p, out, iterators_span) ==
    IF p > Len(toks) THEN Err(Error_new(iterators_span, MsgUnterminated))
    ELSE separator_continue(toks, parse_separator_step(toks, p, out), iterators_span)

\* what quote returns for the outcome of parse_token_stream; a panic unwinds
\* through it
quoted(r) ==
    CASE r.tag = "Ok" -> generate_quote_header(r.out)
      [] r.tag = "Err" -> raise(r.err)
      [] r.tag = "Panic" -> [k |-> "panic"]

quote(toks) == quoted(parse_token_stream(toks))

(***************************************************************************)
(* The templates `quote` is given.  A template is built from fragments:    *)
(* a plain token, a scalar placeholder `#name`, a delimited group, or a    *)
(* repetition head `#( ... )` with or without its separator and `*`.       *)
(***************************************************************************)
MaxFrags == 2

MaxSubFrags == 2

MaxSeqLen == 3

IdX == Ident("x")
IdY == Ident("y")
IdZ == Ident("z")
Hash == Punct("#", "Alone")
Star == Punct("*", "Alone")
Comma == Punct(",", "Alone")
ColonJ == Punct(":", "Joint")
Lit5 == Literal(<<"5">>)
LitHex == Literal(<<"0","x","F">>)

LitTexts ==
    { <<"5">>, <<"0","0","7">>, I32Max, I32MinAbs, I64Max, I64MinAbs, U64Max,
      <<"1","8","4","4","6","7","4","4","0","7","3","7","0","9","5","5","1","6","1","6">>,
      <<"3",".","1","4">>, <<"1",".">>, <<"1","e","3">>, <<"2",".","5","E","-","3">>,
      <<"0","x","F">>, <<"0","x","1","e","3">>, <<"0","o","1","7">>, <<"0","b","1">>,
      <<"1","_","0","0","0">>, <<"1","_","0",".","5">>,
      <<"5","u","8">>, <<"1","_","0","i","6","4">>, <<"1",".","5","f","3","2">>,
      <<"0","x","f","3","2">>, <<"0","x","1","u","8">>,
      <<"\"","a","\"">>, <<"'","a","'">>, <<"b","'","a","'">>,
      <<"r","#","\"","a","\"","#">> }

RECURSIVE Streams(_, _)
\* the concatenations of at most n fragments of F
Streams(F, n) ==
    IF n = 0 THEN {<<>>}
    ELSE LET shorter == Streams(F, n - 1)
         IN  shorter \cup {s \o f : s \in shorter, f \in F}

Scalars == {<<Hash, IdX>>, <<Hash, IdY>>}

PlainFrags == {<<IdX>>, <<Comma>>, <<ColonJ>>, <<Lit5>>, <<LitHex>>, <<Hash>>, <<Star>>}

Groups(delimiters, S) == {<<Group(d, s)>> : d \in delimiters, s \in S}

Tails == {<<>>, <<Star>>, <<Comma, Star>>}

Reps(S, tails) == {<<Hash, Group("Parenthesis", s)>> \o t : s \in S, t \in tails}

\* the streams of the innermost groups
Inner == {<<>>, <<IdX>>, <<Hash, IdX>>, <<Hash, IdY>>, <<Hash, IdY, Hash, IdZ>>}

SubFrags ==
    Scalars \cup {<<IdX>>, <<Comma>>, <<LitHex>>, <<Star>>}
        \cup Groups({"Bracket"}, Inner) \cup Groups({"Parenthesis"}, {<<Hash, IdX>>})
        \cup Reps({<<>>, <<IdX>>, <<Hash, IdY>>}, Tails)

\* the sub-templates of a repetition
Subs == Streams(SubFrags, MaxSubFrags)

SmallSubs == {<<>>, <<IdX>>, <<Hash, IdX>>, <<Hash, IdX, Hash, IdY>>,
              <<Hash, Group("Parenthesis", <<Hash, IdY>>), Star>>}

SmallReps == Reps({<<IdX>>, <<Hash, IdY>>}, Tails)

\* the separators of a repetition
Seps ==
    {<<>>} \cup Scalars \cup PlainFrags \cup SmallReps
        \cup Groups({"Bracket"}, SmallReps \cup {<<Star>>})
        \cup {<<Comma, Hash, IdY>>, <<Hash, Comma>>}

PlainTemplates ==
    Streams(Scalars \cup PlainFrags
                \cup Groups(Delimiters, {<<>>, <<IdX, Comma>>})
                \cup Groups({"Brace"}, Inner \cup {<<LitHex>>, <<Group("Brace", <<Lit5>>)>>}),
            MaxFrags)

LiteralTemplates ==
    {<<Literal(t)>> : t \in LitTexts}
        \cup {<<Group("Brace", <<IdX, Literal(t)>>)>> : t \in LitTexts}

RepetitionTemplates ==
    {<<Hash, Group("Parenthesis", s)>> \o sep \o t :
        s \in Subs, sep \in {<<>>, <<Comma>>}, t \in {<<>>, <<Star>>}}
    \cup
    {pre \o <<Hash, Group("Parenthesis", s)>> \o sep \o t \o post :
        pre \in {<<>>, <<IdX>>}, s \in SmallSubs, sep \in Seps,
        t \in {<<>>, <<Star>>}, post \in {<<>>, <<Comma>>, <<Star>>}}

RECURSIVE Spanned(_, _)
\* the template with each token's span set to its path
Spanned(stream, path) ==
    [i \in 1..Len(stream) |->
        IF stream[i].k = "Group"
        THEN [stream[i] EXCEPT !.span = Append(path, i),
                               !.stream = Spanned(stream[i].stream, Append(path, i))]
        ELSE [stream[i] EXCEPT !.span = Append(path, i)]]

Templates ==
    {Spanned(t, <<>>) : t \in PlainTemplates \cup LiteralTemplates \cup RepetitionTemplates}

(***************************************************************************)
(* The run of `quote` on a template: the loop of the outermost             *)
(* parse_token_stream, one token (with what its pattern consumes) a step.  *)
(***************************************************************************)
Init ==
    /\ input \in Templates
    /\ pos = 1
    /\ output = <<>>
    /\ pc = "walk"
    /\ result = [k |-> "none"]
    /\ ip = 0
    /\ lens = <<>>
    /\ iter = 0
    /\ emitted = <<>>

Advance(r) ==
    /\ CASE r.tag = "Ok" ->
              pos' = r.pos /\ output' = r.out /\ UNCHANGED <<pc, result>>
         [] r.tag = "Err" ->
              pc' = "done" /\ result' = raise(r.err) /\ UNCHANGED <<pos, output>>
         [] r.tag = "Panic" ->
              pc' = "panicked" /\ result' = [k |-> "panic"] /\ UNCHANGED <<pos, output>>
    /\ UNCHANGED <<input, ip, lens, iter, emitted>>

WalkGroup ==
    /\ pc = "walk"
    /\ pos <= Len(input)
    /\ input[pos].k = "Group"
    /\ Advance(pts_step(input, pos, output))

WalkIdent ==
    /\ pc = "walk"
    /\ pos <= Len(input)
    /\ input[pos].k = "Ident"
    /\ Advance(pts_step(input, pos, output))

WalkLiteral ==
    /\ pc = "walk"
    /\ pos <= Len(input)
    /\ input[pos].k = "Literal"
    /\ Advance(pts_step(input, pos, output))

WalkPunct ==
    /\ pc = "walk"
    /\ pos <= Len(input)
    /\ input[pos].k = "Punct"
    /\ Advance(pts_step(input, pos, output))

Return ==
    /\ pc = "walk"
    /\ pos > Len(input)
    /\ pc' = "done"
    /\ result' = generate_quote_header(output)
    /\ UNCHANGED <<input, pos, output, ip, lens, iter, emitted>>

(***************************************************************************)
(* The run of the program `quote` returned: its instructions in order,     *)
(* each call of the runtime recorded in `emitted` with the instruction ip  *)
(* that made it.  A `for` of lines 246-261 runs over sequences whose       *)
(* lengths `lens` are chosen when the loop is entered; iter counts the     *)
(* tuples its iterator has yielded, which is __i under .enumerate().       *)
(***************************************************************************)
IterNames(loop) == <<loop.first_into_iter>> \o loop.zip_iterators

NameSet(loop) == {IterNames(loop)[i] : i \in 1..Len(IterNames(loop))}

\* Zip::next: Some as long as every zipped iterator still has an element
zip_has_next(loop, lengths, i) == \A n \in NameSet(loop) : i < lengths[n]

Call(at, i, part, instrs) ==
    [j \in 1..Len(instrs) |-> [ip |-> at, i |-> i, part |-> part, ins |-> instrs[j]]]

\* a loop that writes the separator after each output instead of between two
loop_iteration_trailing(at, loop, i) ==
    IF loop.enumerate
    THEN Call(at, i, "output", loop.output) \o Call(at, i, "separator", loop.separator)
    ELSE Call(at, i, "output", loop.output)

\* the body of the generated loop in its iteration i
loop_iteration(at, loop, i) ==
    IF loop.enumerate
    THEN (IF i > 0 THEN Call(at, i, "separator", loop.separator) ELSE <<>>)
             \o Call(at, i, "output", loop.output)
    ELSE Call(at, i, "output", loop.output)

Start ==
    /\ pc = "done"
    /\ result.k = "quote_header"
    /\ pc' = "run"
    /\ ip' = 1
    /\ UNCHANGED <<input, pos, output, result, lens, iter, emitted>>

Exec ==
    /\ pc = "run"
    /\ ip <= Len(result.inner)
    /\ result.inner[ip].op # "for"
    /\ emitted' = emitted \o Call(ip, 0, "top", <<result.inner[ip]>>)
    /\ ip' = ip + 1
    /\ UNCHANGED <<input, pos, output, pc, result, lens, iter>>

LoopEnter ==
    /\ pc = "run"
    /\ ip <= Len(result.inner)
    /\ result.inner[ip].op = "for"
    /\ lens' \in [NameSet(result.inner[ip]) -> 0..MaxSeqLen]
    /\ iter' = 0
    /\ pc' = "loop"
    /\ UNCHANGED <<input, pos, output, result, ip, emitted>>

LoopIterate ==
    /\ pc = "loop"
    /\ zip_has_next(result.inner[ip], lens, iter)
    /\ emitted' = emitted \o loop_iteration(ip, result.inner[ip], iter)
    /\ iter' = iter + 1
    /\ UNCHANGED <<input, pos, output, pc, result, ip, lens>>

LoopExit ==
    /\ pc = "loop"
    /\ ~zip_has_next(result.inner[ip], lens, iter)
    /\ pc' = "run"
    /\ ip' = ip + 1
    /\ UNCHANGED <<input, pos, output, result, lens, iter, emitted>>

Halt ==
    /\ pc = "run"
    /\ ip > Len(result.inner)
    /\ pc' = "ran"
    /\ UNCHANGED <<input, pos, output, result, ip, lens, iter, emitted>>

Next ==
    \/ WalkGroup \/ WalkIdent \/ WalkLiteral \/ WalkPunct \/ Return
    \/ Start \/ Exec \/ LoopEnter \/ LoopIterate \/ LoopExit \/ Halt

Spec == Init /\ [][Next]_vars

(***************************************************************************)
(* The shape of a template, read off the tokens alone.                     *)
(***************************************************************************)
IsHash(t) == t.k = "Punct" /\ t.ch = "#"

IsStar(t) == t.k = "Punct" /\ t.ch = "*"

IsParen(t) == t.k = "Group" /\ t.delimiter = "Parenthesis"

\* a Repetition marker: `#` at p, directly followed by a parenthesized group
RepAt(s, p) == p < Len(s) /\ IsHash(s[p]) /\ IsParen(s[p + 1])

\* a Scalar placeholder: `#` at p, directly followed by an identifier
ScalarAt(s, p) == p < Len(s) /\ IsHash(s[p]) /\ s[p + 1].k = "Ident"

RECURSIVE StarAfter(_, _)
\* the first sibling `*` after index i, 0 if there is none
StarAfter(s, i) ==
    IF i >= Len(s) THEN 0
    ELSE IF IsStar(s[i + 1]) THEN i + 1 ELSE StarAfter(s, i + 1)

\* the tokens between the group of the Repetition at p and its terminator
SeparatorOf(s, p) ==
    IF StarAfter(s, p + 1) = 0 THEN SubSeq(s, p + 2, Len(s))
    ELSE SubSeq(s, p + 2, StarAfter(s, p + 1) - 1)

RECURSIVE ContainsRep(_)
ContainsRep(s) ==
    \E p \in 1..Len(s) :
        RepAt(s, p) \/ (s[p].k = "Group" /\ ContainsRep(s[p].stream))

RECURSIVE HasNested(_)
\* a Repetition inside the sub-template or the separator of another one
HasNested(s) ==
    \E p \in 1..Len(s) :
        \/ RepAt(s, p) /\ ContainsRep(s[p + 1].stream)
        \/ RepAt(s, p) /\ ContainsRep(SeparatorOf(s, p))
        \/ s[p].k = "Group" /\ HasNested(s[p].stream)

RECURSIVE HasMarker(_)
HasMarker(s) ==
    \E p \in 1..Len(s) :
        IsHash(s[p]) \/ (s[p].k = "Group" /\ HasMarker(s[p].stream))

RECURSIVE HasScalar(_)
HasScalar(s) ==
    \E p \in 1..Len(s) :
        ScalarAt(s, p) \/ (s[p].k = "Group" /\ HasScalar(s[p].stream))

RECURSIVE TokenAt(_, _)
\* the token a span names
TokenAt(s, span) ==
    IF Len(span) = 1 THEN s[span[1]] ELSE TokenAt(s[span[1]].stream, Tail(span))

\* the stream the token of a span lies in
LevelOf(s, span) ==
    IF Len(span) = 1 THEN s ELSE TokenAt(s, SubSeq(span, 1, Len(span) - 1)).stream

Ended == pc # "walk"

(***************************************************************************)
(* C1: quote returns a construction program for every template, the normal *)
(* one or the deferred diagnostic, and never panics, whatever literals the *)
(* template holds.                                                         *)
(***************************************************************************)
C1_QuoteNeverPanics ==
    /\ pc # "panicked"
    /\ Ended => result.k \in {"quote_header", "compile_error"}

(***************************************************************************)
(* C2: a template with a Repetition inside another Repetition, in its      *)
(* sub-template or its separator, directly or inside a group at any depth, *)
(* never compiles to a normal construction program.                        *)
(***************************************************************************)
C2_NestedRepetitionRejected ==
    (Ended /\ HasNested(input)) => result.k # "quote_header"

RECURSIVE Mirrors(_, _)
\* program holds one append per token of stream, in order
Mirrors(program, stream) ==
    /\ Len(program) = Len(stream)
    /\ \A i \in 1..Len(stream) :
          /\ program[i].span = stream[i].span
          /\ CASE stream[i].k = "Ident" ->
                    program[i].op = "append_ident" /\ program[i].text = stream[i].text
               [] stream[i].k = "Punct" ->
                    /\ program[i].op = "append_punct"
                    /\ program[i].ch = stream[i].ch
                    /\ program[i].spacing = stream[i].spacing
               [] stream[i].k = "Literal" ->
                    /\ program[i].op \in {"append_lit", "append_to_tokens_lit"}
                    /\ program[i].repr = stream[i].repr
               [] stream[i].k = "Group" ->
                    /\ program[i].op = "append_group"
                    /\ program[i].delimiter = stream[i].delimiter
                    /\ program[i].inner.k = "quote_header"
                    /\ Mirrors(program[i].inner.inner, stream[i].stream)

(***************************************************************************)
(* C4: a template without the marker `#` at any depth compiles, and its    *)
(* program holds, at every level, one append per token in the original     *)
(* order, with the same text, character, spacing and delimiter.            *)
(***************************************************************************)
C4_PlainTemplateMirrored ==
    (Ended /\ ~HasMarker(input)) =>
        (result.k = "quote_header" /\ Mirrors(result.inner, input))

RECURSIVE Shortest(_, _)
\* the least of lengths[n] over the names of the sequence
Shortest(lengths, names) ==
    IF Len(names) = 1 THEN lengths[names[1]]
    ELSE LET rest == Shortest(lengths, Tail(names))
         IN  IF lengths[names[1]] < rest THEN lengths[names[1]] ELSE rest

RECURSIVE Interleaved(_, _, _, _)
\* output(i), then separator and output for each later iteration below m
Interleaved(at, loop, i, m) ==
    IF i >= m THEN <<>>
    ELSE (IF i > 0 THEN Call(at, i, "separator", loop.separator) ELSE <<>>)
             \o Call(at, i, "output", loop.output)
             \o Interleaved(at, loop, i + 1, m)

EmittedBy(at) == SelectSeq(emitted, LAMBDA e : e.ip = at)

\* the loop the program has just left
LoopLeft == pc \in {"run", "ran"} /\ ip > 1 /\ result.inner[ip - 1].op = "for"

(***************************************************************************)
(* C3: the loop generated for a Repetition runs min(n1..nk) times over     *)
(* sequences of lengths n1..nk, and writes output(0), separator,           *)
(* output(1), ..., output(m-1): the separator between two iterations only, *)
(* and not at all when it is empty.                                        *)
(***************************************************************************)
C3_LoopZipsAndInterleaves ==
    /\ pc = "loop" => iter <= Shortest(lens, IterNames(result.inner[ip]))
    /\ LoopLeft =>
          /\ iter = Shortest(lens, IterNames(result.inner[ip - 1]))
          /\ EmittedBy(ip - 1) = Interleaved(ip - 1, result.inner[ip - 1], 0, iter)

\* a loop over two sequences of different lengths has run twice, with a separator
C3_Witness ==
    /\ LoopLeft
    /\ result.inner[ip - 1].separator # <<>>
    /\ iter = 2
    /\ \E n \in DOMAIN lens : lens[n] > 2

NestedReported == pc = "done" /\ result.k = "compile_error" /\ result.msg = MsgNested

(***************************************************************************)
(* C5 as stated: the range of the NestedRepetition diagnostic starts at    *)
(* the marker `#` of the inner Repetition and ends at its terminator `*`.  *)
(***************************************************************************)
C5_RangeFromMarkerToTerminator ==
    NestedReported =>
        /\ IsHash(TokenAt(input, result.span_s))
        /\ IsStar(TokenAt(input, result.span_e))

(***************************************************************************)
(* C5: the range of the NestedRepetition diagnostic starts at the          *)
(* parenthesized group of the inner Repetition, the token after its marker *)
(* `#`, and ends at the token just before its terminator `*`: the last     *)
(* token of its separator, or the group itself when the separator is       *)
(* empty.                                                                  *)
(***************************************************************************)
C5_RangeFromGroupToLastSeparatorToken ==
    NestedReported =>
        LET level == LevelOf(input, result.span_s)
            i == result.span_s[Len(result.span_s)]
            j == StarAfter(level, i)
        IN  /\ i > 1
            /\ IsHash(level[i - 1])
            /\ IsParen(level[i])
            /\ level[i].span = result.span_s
            /\ j # 0
            /\ result.span_e = level[j - 1].span

\* a nested Repetition with a separator has been rejected
C5_Witness ==
    /\ NestedReported
    /\ result.span_e # result.span_s
    /\ ~IsStar(TokenAt(input, result.span_e))

\* the step of the walker on the punctuation at pos, as the claim C9 states it
PunctStep ==
    LET punct == input[pos]
        next == IF pos < Len(input) THEN input[pos + 1] ELSE NoToken
        detected == interpolation_pattern_type(punct, input, pos + 1)
    IN  /\ (IsHash(punct) /\ next.k = "Ident") =>
              /\ detected.pat = "Ident"
              /\ detected.tok = next
              /\ detected.pos = pos + 2
              /\ pc' = "walk"
              /\ pos' = pos + 2
              /\ output' = Append(output, [op |-> "append_to_tokens",
                                           text |-> next.text, span |-> next.span])
        /\ (\/ ~IsHash(punct)
            \/ next.k \in {"None", "Literal", "Punct"}
            \/ (next.k = "Group" /\ next.delimiter # "Parenthesis")) =>
              /\ detected.pat = "None"
              /\ detected.pos = pos + 1
              /\ pc' = "walk"
              /\ pos' = pos + 1
              /\ output' = Append(output, [op |-> "append_punct", ch |-> punct.ch,
                                           spacing |-> punct.spacing,
                                           span |-> punct.span])

(***************************************************************************)
(* C9: on `#` followed by an identifier the detector consumes that one     *)
(* identifier and the walker emits one append-to-tokens for it and nothing *)
(* for the `#`; on any other punctuation, or a `#` followed by a literal,  *)
(* a punctuation, a group that is not parenthesized, or nothing, the       *)
(* detector consumes nothing and the walker emits the punctuation itself,  *)
(* character and spacing kept, and goes on with the next token.  A walk    *)
(* only moves forward and returns once every token is consumed.            *)
(***************************************************************************)
C9_DetectorConsumesItsPattern ==
    [][/\ (pc = "walk" /\ pos <= Len(input) /\ input[pos].k = "Punct") => PunctStep
       /\ (pc = "walk" /\ pc' = "walk") => (pos < pos' /\ pos' <= Len(input) + 1)
       /\ (pc = "walk" /\ result'.k = "quote_header") => pos = Len(input) + 1]_vars

\* a placeholder `#x` and then a `#` that is no placeholder have been walked
C9_Witness ==
    /\ pc = "walk"
    /\ ScalarAt(input, 1)
    /\ pos = 4
    /\ Len(output) = 2
    /\ output[1].op = "append_to_tokens"
    /\ output[2].op = "append_punct"
    /\ output[2].ch = "#"

RECURSIVE ScalarNames(_)
\* the names of the Scalar placeholders of s, depth first and left to right
ScalarNames(s) ==
    IF s = <<>> THEN <<>>
    ELSE IF ScalarAt(s, 1) THEN <<s[2].text>> \o ScalarNames(SubSeq(s, 3, Len(s)))
    ELSE IF s[1].k = "Group" THEN ScalarNames(s[1].stream) \o ScalarNames(Tail(s))
    ELSE ScalarNames(Tail(s))

RECURSIVE FirstOccurrences(_)
\* names without the later occurrences of a name
FirstOccurrences(names) ==
    IF names = <<>> THEN <<>>
    ELSE LET front == SubSeq(names, 1, Len(names) - 1)
             last == names[Len(names)]
         IN  IF \E i \in 1..Len(front) : front[i] = last
             THEN FirstOccurrences(front)
             ELSE Append(FirstOccurrences(front), last)

RECURSIVE LeftNested(_)
\* the tuple pattern (((n1, n2), n3), ...)
LeftNested(names) ==
    IF Len(names) = 1 THEN TupleLeaf(names[1])
    ELSE [leaf |-> FALSE, name |-> "",
          l |-> <<LeftNested(SubSeq(names, 1, Len(names) - 1))>>,
          r |-> <<TupleLeaf(names[Len(names)])>>]

(***************************************************************************)
(* C10: the loop generated for a Repetition binds exactly the names of the *)
(* Scalar placeholders of its sub-template, groups at any depth included,  *)
(* each once and in the order of their first occurrence; the first name    *)
(* drives the iteration, the others are zipped in that order, and the k-th *)
(* name stands at the k-th place of the left-nested tuple pattern.         *)
(***************************************************************************)
C10_BoundNamesInFirstOccurrenceOrder ==
    [][(pc = "walk" /\ pos <= Len(input) /\ RepAt(input, pos) /\ pc' = "walk") =>
          LET loop == output'[Len(output')]
              names == FirstOccurrences(ScalarNames(input[pos + 1].stream))
          IN  /\ Len(output') = Len(output) + 1
              /\ loop.op = "for"
              /\ names # <<>>
              /\ IterNames(loop) = names
              /\ loop.first_into_iter = names[1]
              /\ loop.pattern = LeftNested(names)]_vars

\* a loop over y and z for a sub-template that interpolates y twice, once in a group
C10_Witness ==
    /\ pc = "walk"
    /\ Len(output) = 1
    /\ output[1].op = "for"
    /\ IterNames(output[1]) = <<"y", "z">>
    /\ ScalarNames(input[2].stream) = <<"y", "y", "z">>

(***************************************************************************)
(* C7: the separator parser, started after the parenthesized group of a    *)
(* Repetition whose separator holds no Repetition, stops after the first   *)
(* sibling `*` (a `*` inside a group does not end it), returns the         *)
(* instructions of exactly the tokens before it and leaves the tokens      *)
(* after it to the caller; it fails with UnterminatedRepetition at the     *)
(* span of the group if and only if there is no such `*`.                  *)
(***************************************************************************)
C7_SeparatorParserStopsAtTerminator ==
    (/\ pc = "walk"
     /\ pos <= Len(input)
     /\ RepAt(input, pos)
     /\ ~ContainsRep(SeparatorOf(input, pos))) =>
        LET group == input[pos + 1]
            j == StarAfter(input, pos + 1)
            before == parse_token_stream(SeparatorOf(input, pos))
            r == parse_separator(input, pos + 2, group.span)
        IN  /\ j # 0 =>
                  /\ r.tag = "Ok"
                  /\ r.pos = j + 1
                  /\ before.tag = "Ok"
                  /\ r.out = before.out
            /\ j = 0 <=>
                  (r.tag = "Err" /\ r.err = Error_new(group.span, MsgUnterminated))

(***************************************************************************)
(* C8: a terminated Repetition with no Repetition inside it fails with     *)
(* EmptyRepetition at the span of its parenthesized group if and only if   *)
(* its sub-template holds no Scalar placeholder at any depth, whatever     *)
(* placeholders its separator holds; otherwise its loop is generated.      *)
(***************************************************************************)
C8_EmptyIffNoScalarInSubTemplate ==
    [][(/\ pc = "walk"
        /\ pos <= Len(input)
        /\ RepAt(input, pos)
        /\ StarAfter(input, pos + 1) # 0
        /\ ~ContainsRep(input[pos + 1].stream)
        /\ ~ContainsRep(SeparatorOf(input, pos))) =>
           LET group == input[pos + 1]
               empty == /\ pc' = "done"
                        /\ result' = raise(Error_new(group.span, MsgEmpty))
                        /\ output' = output
               looped == /\ pc' = "walk"
                         /\ pos' = StarAfter(input, pos + 1) + 1
                         /\ Len(output') = Len(output) + 1
                         /\ output'[Len(output')].op = "for"
           IN  IF HasScalar(group.stream) THEN looped ELSE empty]_vars

(***************************************************************************)
(* The first defect of a template in a given scan order.  A defect is an   *)
(* EmptyRepetition, NestedRepetition or UnterminatedRepetition site, named *)
(* by its kind and the span it is anchored at; "abort" is a literal no     *)
(* branch of parse_literal accepts.  With clauseFirst the scan reads the   *)
(* separator and terminator of a Repetition before its sub-template, and   *)
(* otherwise after it, as the tokens lie in the template.                  *)
(***************************************************************************)
NoDefect == [kind |-> "none", anchor |-> <<>>]

Defect(kind, anchor) == [kind |-> kind, anchor |-> anchor]

FirstOf(a, b) == IF a.kind # "none" THEN a ELSE b

Unclassifiable(lit) == parse_literal(<<>>, lit).tag = "Panic"

RECURSIVE ScanStream(_, _, _, _)
RECURSIVE ScanClause(_, _, _, _)

\* the first defect of the separator clause read from p, and the index after its `*`
ScanClause(s, p, anchor, clauseFirst) ==
    IF p > Len(s) THEN [ev |-> Defect("Unterminated", anchor), pos |-> p]
    ELSE IF IsStar(s[p]) THEN [ev |-> NoDefect, pos |-> p + 1]
    ELSE IF ScalarAt(s, p) THEN ScanClause(s, p + 2, anchor, clauseFirst)
    ELSE IF RepAt(s, p)
    THEN [ev |-> IF clauseFirst
                 THEN FirstOf(ScanClause(s, p + 2, s[p + 1].span, clauseFirst).ev,
                              Defect("Nested", s[p + 1].span))
                 ELSE Defect("Nested", s[p + 1].span),
          pos |-> p]
    ELSE IF s[p].k = "Literal" /\ Unclassifiable(s[p])
    THEN [ev |-> Defect("abort", <<>>), pos |-> p]
    ELSE IF s[p].k = "Group" /\ ScanStream(s[p].stream, 1, FALSE, clauseFirst) # NoDefect
    THEN [ev |-> ScanStream(s[p].stream, 1, FALSE, clauseFirst), pos |-> p]
    ELSE ScanClause(s, p + 1, anchor, clauseFirst)

\* the first defect of s from p on; restricted inside the sub-template of a Repetition
ScanStream(s, p, restricted, clauseFirst) ==
    IF p > Len(s) THEN NoDefect
    ELSE IF ScalarAt(s, p) THEN ScanStream(s, p + 2, restricted, clauseFirst)
    ELSE IF RepAt(s, p)
    THEN LET group == s[p + 1]
             clause == ScanClause(s, p + 2, group.span, clauseFirst)
             inside == FirstOf(ScanStream(group.stream, 1, TRUE, clauseFirst),
                               IF HasScalar(group.stream) THEN NoDefect
                               ELSE Defect("Empty", group.span))
             rest == ScanStream(s, clause.pos, restricted, clauseFirst)
         IN  IF restricted
             THEN (IF clauseFirst THEN FirstOf(clause.ev, Defect("Nested", group.span))
                   ELSE Defect("Nested", group.span))
             ELSE IF clauseFirst THEN FirstOf(clause.ev, FirstOf(inside, rest))
             ELSE FirstOf(inside, FirstOf(clause.ev, rest))
    ELSE IF s[p].k = "Literal" /\ Unclassifiable(s[p]) THEN Defect("abort", <<>>)
    ELSE IF s[p].k = "Group"
    THEN FirstOf(ScanStream(s[p].stream, 1, restricted, clauseFirst),
                 ScanStream(s, p + 1, restricted, clauseFirst))
    ELSE ScanStream(s, p + 1, restricted, clauseFirst)

\* what compile has reported, as a defect
Reported ==
    CASE result.k = "quote_header" -> NoDefect
      [] result.k = "panic" -> Defect("abort", <<>>)
      [] result.k = "compile_error" ->
            Defect(CASE result.msg = MsgEmpty -> "Empty"
                     [] result.msg = MsgNested -> "Nested"
                     [] result.msg = MsgUnterminated -> "Unterminated",
                   result.span_s)

(***************************************************************************)
(* C6 as stated: compile reports the one defect that comes first in a      *)
(* depth-first, left-to-right scan of the template, so that a defect in    *)
(* the sub-template of a Repetition wins over a defect in its separator    *)
(* and terminator clause.                                                  *)
(***************************************************************************)
C6_FirstDefectLeftToRight ==
    (pc = "done" /\ result.k = "compile_error") =>
        Reported = ScanStream(input, 1, FALSE, FALSE)

(***************************************************************************)
(* C6: compile reports at most one diagnostic, the first defect of a scan  *)
(* that goes depth first and left to right but reads the separator and     *)
(* terminator clause of each Repetition before its sub-template (and       *)
(* before it rejects a nested one); a literal that cannot be classified    *)
(* ends the scan when it is met before any defect, and a template whose    *)
(* scan meets neither compiles.                                            *)
(***************************************************************************)
C6_FirstDefectClauseBeforeSubTemplate ==
    Ended => Reported = ScanStream(input, 1, FALSE, TRUE)

\* a Repetition with an empty sub-template and no terminator: Unterminated is reported
C6_Witness ==
    /\ pc = "done"
    /\ RepAt(input, 1)
    /\ ~HasScalar(input[2].stream)
    /\ ~ContainsRep(input[2].stream)
    /\ result.k = "compile_error"
    /\ result.msg = MsgUnterminated
    /\ result.span_s = input[2].span

====
